---- MODULE Spec2Model ----
(***************************************************************************)
(* A model of github.com/luxfi/codec: the byte packer (packing.go), the    *)
(* versioned codec manager (codec.go), and the linear codec with its type  *)
(* registry, which the manager dispatches to.                              *)
(*                                                                         *)
(* Representation of Go values:                                            *)
(*   byte, uint16      an integer in 0..255, 0..65535                      *)
(*   uint32            <<hi, lo>>, two 16-bit limbs (TLC's integers are    *)
(*                     32-bit signed and cannot hold 2^32 - 1)             *)
(*   uint64            <<l3, l2, l1, l0>>, four 16-bit limbs               *)
(*   []byte, string    a sequence of bytes; a []byte result also says      *)
(*                     whether it is nil                                   *)
(*   error             a string naming the error variable, NoErr for nil   *)
(***************************************************************************)
EXTENDS Integers, Sequences, FiniteSets, TLC

VARIABLES
    p,            \* the Packer under test (Bytes, Offset, Err)
    prev,         \* the Packer as it was before the last call on it
    call,         \* the last call made: its name, arguments and results
    steps,        \* number of calls made so far
    codecs,       \* manager.codecs: version -> codec
    wire,         \* the bytes in flight between Marshal and Unmarshal
    sent,         \* what wire is: the value it encodes, or the crafted input
    nextTypeID,   \* the registry's next tag, a uint32
    typeIDToIdx,  \* the registry: shape -> tag
    idxToType,    \* the registry: tag -> shape
    hist,         \* the registry calls made so far, with their results
    threads       \* the goroutines calling the manager: each one's call and position

vars == <<p, prev, call, steps, codecs, wire, sent, nextTypeID, typeIDToIdx, idxToType, hist,
          threads>>

None == "none"

(***************************************************************************)
(* Integers of fixed width.                                                *)
(***************************************************************************)
TwoTo8 == 256
TwoTo16 == 65536
TwoTo15 == 32768

\* uint32(n) for a Go int n that TLC can hold: the low 32 bits, as limbs.
U32(n) == <<(n \div TwoTo16) % TwoTo16, n % TwoTo16>>

\* a + b on uint32, wrapping at 2^32.
U32Add(a, b) ==
    LET lo == a[2] + b[2]
        hi == a[1] + b[1] + (lo \div TwoTo16)
    IN  <<hi % TwoTo16, lo % TwoTo16>>

\* a > n for a uint32 a and a small non-negative integer n < 2^31.
U32Gt(a, n) == IF a[1] >= TwoTo15 THEN TRUE ELSE a[1] * TwoTo16 + a[2] > n

\* int(a) for a uint32 a. A value of 2^31 or more does not fit a TLC integer:
\* it is represented by MaxInt32, which like it exceeds every buffer length of
\* the model, the only thing such a length is compared with.
MaxInt32 == 2147483647
IntOfU32(a) == IF a[1] >= TwoTo15 THEN MaxInt32 ELSE a[1] * TwoTo16 + a[2]

\* binary.BigEndian.PutUint16 / PutUint32 / PutUint64
BE16(v) == <<v \div TwoTo8, v % TwoTo8>>
BE32(v) == BE16(v[1]) \o BE16(v[2])
BE64(v) == BE16(v[1]) \o BE16(v[2]) \o BE16(v[3]) \o BE16(v[4])

\* binary.BigEndian.Uint16 / Uint32 / Uint64 of the bytes of b from offset off
Uint16At(b, off) == b[off + 1] * TwoTo8 + b[off + 2]
Uint32At(b, off) == <<Uint16At(b, off), Uint16At(b, off + 2)>>
Uint64At(b, off) ==
    <<Uint16At(b, off), Uint16At(b, off + 2), Uint16At(b, off + 4), Uint16At(b, off + 6)>>

(***************************************************************************)
(* packing.go: the Packer.                                                 *)
(***************************************************************************)
NoErr == "nil"
ErrInsufficientLength == "ErrInsufficientLength"
ErrNegativeLength == "ErrNegativeLength"
ErrBadLength == "ErrBadLength"
ErrOverflow == "ErrOverflow"

MaxStringLen == 65535
IDLen == 32

NilBytes == [isNil |-> TRUE, b |-> <<>>]
SliceOf(b) == [isNil |-> FALSE, b |-> b]

Zeros(n) == [i \in 1..n |-> 0]

\* The capacity of Bytes is not modelled: nothing bounds the growth of the
\* buffer, and no operation of the package reads the capacity back.
NewPacker(maxSize) == [Bytes |-> <<>>, Offset |-> 0, Err |-> NoErr]

PackerFromBytes(b) == [Bytes |-> b, Offset |-> 0, Err |-> NoErr]

Remaining(q) == Len(q.Bytes) - q.Offset

Errored(q) == q.Err # NoErr

expand(q, n) ==
    IF q.Err # NoErr THEN q
    ELSE LET needed == q.Offset + n
         IN  IF needed > Len(q.Bytes)
             THEN [q EXCEPT !.Bytes = q.Bytes \o Zeros(needed - Len(q.Bytes))]
             ELSE q

\* copy(b[off:], data), for a b that holds off + Len(data) bytes
PutAt(b, off, data) ==
    SubSeq(b, 1, off) \o data \o SubSeq(b, off + Len(data) + 1, Len(b))

PackByte(q, val) ==
    LET e == expand(q, 1)
    IN  IF e.Err # NoErr THEN e
        ELSE [e EXCEPT !.Bytes = PutAt(e.Bytes, e.Offset, <<val>>),
                       !.Offset = e.Offset + 1]

UnpackByte(q) ==
    IF q.Err # NoErr THEN [p |-> q, val |-> 0]
    ELSE IF q.Offset >= Len(q.Bytes)
    THEN [p |-> [q EXCEPT !.Err = ErrInsufficientLength], val |-> 0]
    ELSE [p |-> [q EXCEPT !.Offset = q.Offset + 1], val |-> q.Bytes[q.Offset + 1]]

PackShort(q, val) ==
    LET e == expand(q, 2)
    IN  IF e.Err # NoErr THEN e
        ELSE [e EXCEPT !.Bytes = PutAt(e.Bytes, e.Offset, BE16(val)),
                       !.Offset = e.Offset + 2]

\* UnpackShort reading its two bytes least significant first.
UnpackShort_LittleEndian(q) ==
    IF q.Err # NoErr THEN [p |-> q, val |-> 0]
    ELSE IF q.Offset + 2 > Len(q.Bytes)
    THEN [p |-> [q EXCEPT !.Err = ErrInsufficientLength], val |-> 0]
    ELSE [p |-> [q EXCEPT !.Offset = q.Offset + 2],
          val |-> q.Bytes[q.Offset + 2] * TwoTo8 + q.Bytes[q.Offset + 1]]

UnpackShort(q) ==
    IF q.Err # NoErr THEN [p |-> q, val |-> 0]
    ELSE IF q.Offset + 2 > Len(q.Bytes)
    THEN [p |-> [q EXCEPT !.Err = ErrInsufficientLength], val |-> 0]
    ELSE [p |-> [q EXCEPT !.Offset = q.Offset + 2], val |-> Uint16At(q.Bytes, q.Offset)]

\* PackInt writing its four bytes least significant first.
PackInt_LittleEndian(q, val) ==
    LET e == expand(q, 4)
        be == BE32(val)
    IN  IF e.Err # NoErr THEN e
        ELSE [e EXCEPT !.Bytes = PutAt(e.Bytes, e.Offset, <<be[4], be[3], be[2], be[1]>>),
                       !.Offset = e.Offset + 4]

PackInt(q, val) ==
    LET e == expand(q, 4)
    IN  IF e.Err # NoErr THEN e
        ELSE [e EXCEPT !.Bytes = PutAt(e.Bytes, e.Offset, BE32(val)),
                       !.Offset = e.Offset + 4]

\* UnpackInt returning 0 on a short buffer without setting Err.
UnpackInt_NoError(q) ==
    IF q.Err # NoErr THEN [p |-> q, val |-> <<0, 0>>]
    ELSE IF q.Offset + 4 > Len(q.Bytes)
    THEN [p |-> q, val |-> <<0, 0>>]
    ELSE [p |-> [q EXCEPT !.Offset = q.Offset + 4], val |-> Uint32At(q.Bytes, q.Offset)]

\* UnpackInt reading its four bytes least significant first.
UnpackInt_LittleEndian(q) ==
    IF q.Err # NoErr THEN [p |-> q, val |-> <<0, 0>>]
    ELSE IF q.Offset + 4 > Len(q.Bytes)
    THEN [p |-> [q EXCEPT !.Err = ErrInsufficientLength], val |-> <<0, 0>>]
    ELSE [p |-> [q EXCEPT !.Offset = q.Offset + 4],
          val |-> << q.Bytes[q.Offset + 4] * TwoTo8 + q.Bytes[q.Offset + 3],
                     q.Bytes[q.Offset + 2] * TwoTo8 + q.Bytes[q.Offset + 1] >>]

UnpackInt(q) ==
    IF q.Err # NoErr THEN [p |-> q, val |-> <<0, 0>>]
    ELSE IF q.Offset + 4 > Len(q.Bytes)
    THEN [p |-> [q EXCEPT !.Err = ErrInsufficientLength], val |-> <<0, 0>>]
    ELSE [p |-> [q EXCEPT !.Offset = q.Offset + 4], val |-> Uint32At(q.Bytes, q.Offset)]

PackLong(q, val) ==
    LET e == expand(q, 8)
    IN  IF e.Err # NoErr THEN e
        ELSE [e EXCEPT !.Bytes = PutAt(e.Bytes, e.Offset, BE64(val)),
                       !.Offset = e.Offset + 8]

UnpackLong(q) ==
    IF q.Err # NoErr THEN [p |-> q, val |-> <<0, 0, 0, 0>>]
    ELSE IF q.Offset + 8 > Len(q.Bytes)
    THEN [p |-> [q EXCEPT !.Err = ErrInsufficientLength], val |-> <<0, 0, 0, 0>>]
    ELSE [p |-> [q EXCEPT !.Offset = q.Offset + 8], val |-> Uint64At(q.Bytes, q.Offset)]

PackBool(q, val) == IF val THEN PackByte(q, 1) ELSE PackByte(q, 0)

UnpackBool(q) == LET r == UnpackByte(q) IN [p |-> r.p, val |-> r.val # 0]

PackFixedBytes(q, val) ==
    LET e == expand(q, Len(val))
    IN  IF e.Err # NoErr THEN e
        ELSE [e EXCEPT !.Bytes = PutAt(e.Bytes, e.Offset, val),
                       !.Offset = e.Offset + Len(val)]

\* p.Offset+n > len(p.Bytes) is computed as n > len(p.Bytes) - p.Offset, which
\* is the same in Go's 64-bit int and does not overflow a TLC integer.
UnpackFixedBytes(q, n) ==
    IF q.Err # NoErr THEN [p |-> q, val |-> NilBytes]
    ELSE IF n < 0
    THEN [p |-> [q EXCEPT !.Err = ErrNegativeLength], val |-> NilBytes]
    ELSE IF n > Len(q.Bytes) - q.Offset
    THEN [p |-> [q EXCEPT !.Err = ErrInsufficientLength], val |-> NilBytes]
    ELSE [p |-> [q EXCEPT !.Offset = q.Offset + n],
          val |-> SliceOf(SubSeq(q.Bytes, q.Offset + 1, q.Offset + n))]

PackBytes(q, val) ==
    IF Len(val) > MaxInt32 THEN [q EXCEPT !.Err = ErrOverflow]
    ELSE PackFixedBytes(PackInt(q, U32(Len(val))), val)

UnpackBytes(q) ==
    LET r == UnpackInt(q) IN UnpackFixedBytes(r.p, IntOfU32(r.val))

PackStr(q, val) ==
    LET strLen == Len(val)
    IN  IF strLen > MaxStringLen THEN [q EXCEPT !.Err = ErrBadLength]
        ELSE PackFixedBytes(PackShort(q, strLen % TwoTo16), val)

UnpackStr(q) ==
    LET r == UnpackShort(q)
        s == UnpackFixedBytes(r.p, r.val)
    IN  [p |-> s.p, val |-> s.val.b]

PackID(q, id) == PackFixedBytes(q, id)

\* ids.ToID fails only on a slice that is not IDLen bytes long, which
\* UnpackFixedBytes(IDLen) never returns without setting Err.
UnpackID(q) ==
    LET r == UnpackFixedBytes(q, IDLen)
    IN  IF r.p.Err # NoErr THEN [p |-> r.p, val |-> Zeros(IDLen)]
        ELSE [p |-> r.p, val |-> r.val.b]

(***************************************************************************)
(* Sizes of the packed primitives, and the errors of the codec.            *)
(***************************************************************************)
ByteLen == 1
ShortLen == 2
VersionSize == ShortLen
IntLen == 4
LongLen == 8
BoolLen == 1

StringLen(str) == ShortLen + Len(str)

ErrMaxSliceLenExceeded == "ErrMaxSliceLenExceeded"
ErrMarshalZeroLength == "ErrMarshalZeroLength"
ErrCantPackVersion == "ErrCantPackVersion"
ErrCantUnpackVersion == "ErrCantUnpackVersion"
ErrUnknownVersion == "ErrUnknownVersion"
ErrDuplicateType == "ErrDuplicateType"
ErrTypeNotFound == "ErrTypeNotFound"
ErrCantRegisterType == "ErrCantRegisterType"

(***************************************************************************)
(* Shapes and values of the transcoder.                                    *)
(*                                                                         *)
(* A shape is <<"bool">>, <<"u8">>, <<"u16">>, <<"u32">>, <<"u64">>,       *)
(* <<"i8">>, <<"i16">>, <<"i32">>, <<"i64">>, <<"str">>, <<"slice", E>>,   *)
(* <<"array", E, n>>, <<"struct", <<T1, ..., Tk>>>>, <<"ptr", E>> or       *)
(* <<"iface">>. A value is                                                 *)
(*   <<"bool", b>>, <<"u8", n>>, <<"u16", n>>, <<"u32", limbs>>,           *)
(*   <<"u64", limbs>>, <<"i8", n>>, <<"i16", n>>, <<"i32", n>>,            *)
(*   <<"i64", <<h, l>>>>  (h the signed high word, l the low word's limbs) *)
(*   <<"str", bytes>>                                                      *)
(*   <<"slice", E, isNil, elems>>     <<"array", E, elems>>                *)
(*   <<"struct", fields>>             <<"ptr", E, isNil, pointee>>         *)
(*   <<"iface", name, v>>  (name the concrete shape's identity, None for   *)
(*                          a nil interface)                               *)
(***************************************************************************)
TypeNames == {"A", "B", "C", "D"}

\* The concrete shapes that may be registered.
TypeShape(name) ==
    CASE name = "A" -> <<"u8">>
      [] name = "B" -> <<"struct", << <<"u16">>, <<"str">> >> >>
      [] name = "C" -> <<"struct", <<>> >>
      [] OTHER      -> <<"str">>

\* Bit-pattern reinterpretation between signed and unsigned integers.
U8OfI8(v) == v % TwoTo8
I8OfU8(u) == IF u >= 128 THEN u - TwoTo8 ELSE u
U16OfI16(v) == v % TwoTo16
I16OfU16(u) == IF u >= TwoTo15 THEN u - TwoTo16 ELSE u
U32OfI32(v) == U32(v)
I32OfU32(u) == IF u[1] >= TwoTo15 THEN (u[1] - TwoTo16) * TwoTo16 + u[2]
               ELSE u[1] * TwoTo16 + u[2]
U64OfI64(v) == U32(v[1]) \o v[2]
I64OfU64(u) == <<I32OfU32(<<u[1], u[2]>>), <<u[3], u[4]>> >>

RECURSIVE Zero(_)
Zero(T) ==
    CASE T[1] = "bool"   -> <<"bool", FALSE>>
      [] T[1] = "u32"    -> <<"u32", <<0, 0>> >>
      [] T[1] = "u64"    -> <<"u64", <<0, 0, 0, 0>> >>
      [] T[1] = "i64"    -> <<"i64", <<0, <<0, 0>> >> >>
      [] T[1] = "str"    -> <<"str", <<>> >>
      [] T[1] = "slice"  -> <<"slice", T[2], TRUE, <<>> >>
      [] T[1] = "array"  -> <<"array", T[2], [i \in 1..T[3] |-> Zero(T[2])]>>
      [] T[1] = "struct" -> <<"struct", [i \in 1..Len(T[2]) |-> Zero(T[2][i])]>>
      [] T[1] = "ptr"    -> <<"ptr", T[2], TRUE, None>>
      [] T[1] = "iface"  -> <<"iface", None, None>>
      [] OTHER           -> <<T[1], 0>>

RECURSIVE ShapeOf(_)
ShapeOf(v) ==
    CASE v[1] = "slice"  -> <<"slice", v[2]>>
      [] v[1] = "array"  -> <<"array", v[2], Len(v[3])>>
      [] v[1] = "struct" -> <<"struct", [i \in 1..Len(v[2]) |-> ShapeOf(v[2][i])]>>
      [] v[1] = "ptr"    -> <<"ptr", v[2]>>
      [] OTHER           -> <<v[1]>>

(***************************************************************************)
(* The type registry of the linear codec.                                  *)
(***************************************************************************)
Registry == [next |-> nextTypeID, typeIDToIdx |-> typeIDToIdx, idxToType |-> idxToType]

NewRegistry == [next |-> <<0, 0>>, typeIDToIdx |-> <<>>, idxToType |-> <<>>]

\* RegisterType spending a tag on a shape that is already registered.
RegisterType_SpendsTag(reg, name) ==
    IF name \in DOMAIN reg.typeIDToIdx
    THEN [reg |-> [reg EXCEPT !.next = U32Add(reg.next, <<0, 1>>)],
          err |-> ErrCantRegisterType]
    ELSE [reg |-> [next        |-> U32Add(reg.next, <<0, 1>>),
                   typeIDToIdx |-> (name :> reg.next) @@ reg.typeIDToIdx,
                   idxToType   |-> (reg.next :> name) @@ reg.idxToType],
          err |-> NoErr]

RegisterType(reg, name) ==
    IF name \in DOMAIN reg.typeIDToIdx
    THEN [reg |-> reg, err |-> ErrCantRegisterType]
    ELSE [reg |-> [next        |-> U32Add(reg.next, <<0, 1>>),
                   typeIDToIdx |-> (name :> reg.next) @@ reg.typeIDToIdx,
                   idxToType   |-> (reg.next :> name) @@ reg.idxToType],
          err |-> NoErr]

\* num is a Go int; uint32(num) keeps its low 32 bits.
SkipRegistrations(reg, num) == [reg EXCEPT !.next = U32Add(reg.next, U32(num))]

(***************************************************************************)
(* The transcoder: encode, size and decode by shape.                       *)
(***************************************************************************)
MaxSliceLen == 2

Packed(q) == [p |-> q, err |-> q.Err]

RECURSIVE marshal(_, _), marshalAll(_, _, _)
marshal(v, q) ==
    CASE v[1] = "bool"  -> Packed(PackBool(q, v[2]))
      [] v[1] = "u8"    -> Packed(PackByte(q, v[2]))
      [] v[1] = "u16"   -> Packed(PackShort(q, v[2]))
      [] v[1] = "u32"   -> Packed(PackInt(q, v[2]))
      [] v[1] = "u64"   -> Packed(PackLong(q, v[2]))
      [] v[1] = "i8"    -> Packed(PackByte(q, U8OfI8(v[2])))
      [] v[1] = "i16"   -> Packed(PackShort(q, U16OfI16(v[2])))
      [] v[1] = "i32"   -> Packed(PackInt(q, U32OfI32(v[2])))
      [] v[1] = "i64"   -> Packed(PackLong(q, U64OfI64(v[2])))
      [] v[1] = "str"   -> Packed(PackStr(q, v[2]))
      [] v[1] = "slice" ->
            IF Len(v[4]) > MaxSliceLen
            THEN [p |-> q, err |-> ErrMaxSliceLenExceeded]
            ELSE LET r == PackInt(q, U32(Len(v[4])))
                 IN  IF r.Err # NoErr THEN Packed(r) ELSE marshalAll(v[4], 1, r)
      [] v[1] = "array"  -> marshalAll(v[3], 1, q)
      [] v[1] = "struct" -> marshalAll(v[2], 1, q)
      [] v[1] = "ptr"    ->
            IF v[3] THEN [p |-> q, err |-> ErrMarshalZeroLength]
            ELSE marshal(v[4], q)
      [] v[1] = "iface"  ->
            IF v[2] = None THEN [p |-> q, err |-> ErrMarshalZeroLength]
            ELSE IF v[2] \notin DOMAIN typeIDToIdx
            THEN [p |-> q, err |-> ErrTypeNotFound]
            ELSE LET r == PackInt(q, typeIDToIdx[v[2]])
                 IN  IF r.Err # NoErr THEN Packed(r) ELSE marshal(v[3], r)

marshalAll(vs, i, q) ==
    IF i > Len(vs) THEN [p |-> q, err |-> NoErr]
    ELSE LET r == marshal(vs[i], q)
         IN  IF r.err # NoErr THEN r ELSE marshalAll(vs, i + 1, r.p)

MarshalInto(value, q) == marshal(value, q)

RECURSIVE size(_), sizeAll(_, _, _)
size(v) ==
    CASE v[1] \in {"u8", "i8"}   -> [n |-> ByteLen, err |-> NoErr]
      [] v[1] = "bool"           -> [n |-> BoolLen, err |-> NoErr]
      [] v[1] \in {"u16", "i16"} -> [n |-> ShortLen, err |-> NoErr]
      [] v[1] \in {"u32", "i32"} -> [n |-> IntLen, err |-> NoErr]
      [] v[1] \in {"u64", "i64"} -> [n |-> LongLen, err |-> NoErr]
      [] v[1] = "str"            -> [n |-> StringLen(v[2]), err |-> NoErr]
      [] v[1] = "slice" ->
            IF Len(v[4]) > MaxSliceLen
            THEN [n |-> 0, err |-> ErrMaxSliceLenExceeded]
            ELSE sizeAll(v[4], 1, IntLen)
      [] v[1] = "array"  -> sizeAll(v[3], 1, 0)
      [] v[1] = "struct" -> sizeAll(v[2], 1, 0)
      [] v[1] = "ptr"    ->
            IF v[3] THEN [n |-> 0, err |-> ErrMarshalZeroLength] ELSE size(v[4])
      [] v[1] = "iface"  ->
            IF v[2] = None THEN [n |-> 0, err |-> ErrMarshalZeroLength]
            ELSE IF v[2] \notin DOMAIN typeIDToIdx
            THEN [n |-> 0, err |-> ErrTypeNotFound]
            ELSE sizeAll(<<v[3]>>, 1, IntLen)

sizeAll(vs, i, acc) ==
    IF i > Len(vs) THEN [n |-> acc, err |-> NoErr]
    ELSE LET r == size(vs[i])
         IN  IF r.err # NoErr THEN [n |-> 0, err |-> r.err]
             ELSE sizeAll(vs, i + 1, acc + r.n)

CodecSize(value) == size(value)

Decoded(r, old, new) ==
    IF r.p.Err # NoErr THEN [p |-> r.p, err |-> r.p.Err, val |-> old]
    ELSE [p |-> r.p, err |-> NoErr, val |-> new]

RECURSIVE unmarshal(_, _, _), unmarshalAll(_, _, _, _)
unmarshal(T, q, old) ==
    CASE T[1] = "bool" -> LET r == UnpackBool(q) IN Decoded(r, old, <<"bool", r.val>>)
      [] T[1] = "u8"   -> LET r == UnpackByte(q) IN Decoded(r, old, <<"u8", r.val>>)
      [] T[1] = "u16"  -> LET r == UnpackShort(q) IN Decoded(r, old, <<"u16", r.val>>)
      [] T[1] = "u32"  -> LET r == UnpackInt(q) IN Decoded(r, old, <<"u32", r.val>>)
      [] T[1] = "u64"  -> LET r == UnpackLong(q) IN Decoded(r, old, <<"u64", r.val>>)
      [] T[1] = "i8"   -> LET r == UnpackByte(q) IN Decoded(r, old, <<"i8", I8OfU8(r.val)>>)
      [] T[1] = "i16"  -> LET r == UnpackShort(q) IN Decoded(r, old, <<"i16", I16OfU16(r.val)>>)
      [] T[1] = "i32"  -> LET r == UnpackInt(q) IN Decoded(r, old, <<"i32", I32OfU32(r.val)>>)
      [] T[1] = "i64"  -> LET r == UnpackLong(q) IN Decoded(r, old, <<"i64", I64OfU64(r.val)>>)
      [] T[1] = "str"  -> LET r == UnpackStr(q) IN Decoded(r, old, <<"str", r.val>>)
      [] T[1] = "slice" ->
            LET r == UnpackInt(q)
            IN  IF r.p.Err # NoErr THEN [p |-> r.p, err |-> r.p.Err, val |-> old]
                ELSE IF U32Gt(r.val, MaxSliceLen)
                THEN [p |-> r.p, err |-> ErrMaxSliceLenExceeded, val |-> old]
                ELSE LET n == IntOfU32(r.val)
                         s == unmarshalAll([i \in 1..n |-> T[2]], 1, r.p,
                                           [i \in 1..n |-> Zero(T[2])])
                     IN  [p |-> s.p, err |-> s.err, val |-> <<"slice", T[2], FALSE, s.vals>>]
      [] T[1] = "array" ->
            LET s == unmarshalAll([i \in 1..T[3] |-> T[2]], 1, q, old[3])
            IN  [p |-> s.p, err |-> s.err, val |-> <<"array", T[2], s.vals>>]
      [] T[1] = "struct" ->
            LET s == unmarshalAll(T[2], 1, q, old[2])
            IN  [p |-> s.p, err |-> s.err, val |-> <<"struct", s.vals>>]
      [] T[1] = "ptr" ->
            LET s == unmarshal(T[2], q, Zero(T[2]))
            IN  IF s.err # NoErr THEN [p |-> s.p, err |-> s.err, val |-> old]
                ELSE [p |-> s.p, err |-> NoErr, val |-> <<"ptr", T[2], FALSE, s.val>>]
      [] T[1] = "iface" ->
            LET r == UnpackInt(q)
            IN  IF r.p.Err # NoErr THEN [p |-> r.p, err |-> r.p.Err, val |-> old]
                ELSE IF r.val \notin DOMAIN idxToType
                THEN [p |-> r.p, err |-> ErrTypeNotFound, val |-> old]
                ELSE LET name == idxToType[r.val]
                         s == unmarshal(TypeShape(name), r.p, Zero(TypeShape(name)))
                     IN  IF s.err # NoErr THEN [p |-> s.p, err |-> s.err, val |-> old]
                         ELSE [p |-> s.p, err |-> NoErr, val |-> <<"iface", name, s.val>>]

unmarshalAll(Ts, i, q, vals) ==
    IF i > Len(Ts) THEN [p |-> q, err |-> NoErr, vals |-> vals]
    ELSE LET r == unmarshal(Ts[i], q, vals[i])
             written == [vals EXCEPT ![i] = r.val]
         IN  IF r.err # NoErr THEN [p |-> r.p, err |-> r.err, vals |-> written]
             ELSE unmarshalAll(Ts, i + 1, r.p, written)

UnmarshalFrom(q, T, dest) == unmarshal(T, q, dest)

(***************************************************************************)
(* codec.go: the versioned manager.                                        *)
(***************************************************************************)
DefaultMaxSize == 1024 * 1024

Marshal(version, source) ==
    IF version \notin DOMAIN codecs
    THEN [bytes |-> NilBytes, err |-> ErrUnknownVersion]
    ELSE LET q == PackShort(NewPacker(DefaultMaxSize), version)
         IN  IF q.Err # NoErr THEN [bytes |-> NilBytes, err |-> ErrCantPackVersion]
             ELSE LET r == MarshalInto(source, q)
                  IN  IF r.err # NoErr THEN [bytes |-> NilBytes, err |-> r.err]
                      ELSE [bytes |-> SliceOf(SubSeq(r.p.Bytes, 1, r.p.Offset)),
                            err |-> r.p.Err]

\* Unmarshal returning version 0 with ErrUnknownVersion.
Unmarshal_DropsVersion(bytes, T, dest) ==
    IF Len(bytes) < 2
    THEN [version |-> 0, err |-> ErrCantUnpackVersion, dest |-> dest, invoked |-> FALSE]
    ELSE LET r == UnpackShort(PackerFromBytes(bytes))
         IN  IF r.p.Err # NoErr
             THEN [version |-> 0, err |-> ErrCantUnpackVersion, dest |-> dest,
                   invoked |-> FALSE]
             ELSE IF r.val \notin DOMAIN codecs
             THEN [version |-> 0, err |-> ErrUnknownVersion, dest |-> dest,
                   invoked |-> FALSE]
             ELSE LET s == UnmarshalFrom(r.p, T, dest)
                  IN  [version |-> r.val, err |-> s.err, dest |-> s.val,
                       invoked |-> TRUE]

Unmarshal(bytes, T, dest) ==
    IF Len(bytes) < 2
    THEN [version |-> 0, err |-> ErrCantUnpackVersion, dest |-> dest, invoked |-> FALSE]
    ELSE LET r == UnpackShort(PackerFromBytes(bytes))
         IN  IF r.p.Err # NoErr
             THEN [version |-> 0, err |-> ErrCantUnpackVersion, dest |-> dest,
                   invoked |-> FALSE]
             ELSE IF r.val \notin DOMAIN codecs
             THEN [version |-> r.val, err |-> ErrUnknownVersion, dest |-> dest,
                   invoked |-> FALSE]
             ELSE LET s == UnmarshalFrom(r.p, T, dest)
                  IN  [version |-> r.val, err |-> s.err, dest |-> s.val,
                       invoked |-> TRUE]

ManagerSize(version, value) ==
    IF version \notin DOMAIN codecs THEN [n |-> 0, err |-> ErrUnknownVersion]
    ELSE LET r == CodecSize(value)
         IN  IF r.err # NoErr THEN [n |-> 0, err |-> r.err]
             ELSE [n |-> 2 + r.n, err |-> NoErr]

RegisterCodec(table, version, codec) ==
    IF version \in DOMAIN table THEN [codecs |-> table, err |-> ErrDuplicateType]
    ELSE [codecs |-> (version :> codec) @@ table, err |-> NoErr]

(***************************************************************************)
(* The inputs of the model.                                                *)
(***************************************************************************)
MaxTags == 2      \* registry calls are made while the next tag is below this
MaxCut == 12      \* prefixes of an encoding: its first MaxCut lengths, and all but one byte

Versions == {1, 258}

Ok == <<111, 107>>
MaxStr == [i \in 1..MaxStringLen |-> 97]
LongStr == [i \in 1..(MaxStringLen + 1) |-> 97]

U8s(n) == [i \in 1..n |-> <<"u8", i>>]
SliceU8(n) == <<"slice", <<"u8">>, FALSE, U8s(n)>>
NilSliceU8 == <<"slice", <<"u8">>, TRUE, <<>> >>
EmptyStruct == <<"struct", <<>> >>
Record7Ok == <<"struct", << <<"u32", <<0, 7>> >>, <<"str", Ok>> >> >>
IfaceA == <<"iface", "A", <<"u8", 5>> >>
IfaceB == <<"iface", "B", <<"struct", << <<"u16", 1>>, <<"str", Ok>> >> >> >>
IfaceC == <<"iface", "C", EmptyStruct>>
IfaceD == <<"iface", "D", <<"str", Ok>> >>
NilIface == <<"iface", None, None>>
MinInt32 == -2147483647 - 1

Primitives ==
    { <<"bool", TRUE>>, <<"bool", FALSE>>, <<"u8", 255>>, <<"u16", 258>>,
      <<"u32", <<0, 7>> >>, <<"u32", <<65535, 65534>> >>, <<"u64", <<1, 2, 3, 65535>> >>,
      <<"i8", -1>>, <<"i8", -128>>, <<"i16", -2>>, <<"i32", -5>>, <<"i32", MinInt32>>,
      <<"i64", <<-1, <<65535, 65535>> >> >>, <<"i64", <<MinInt32, <<0, 0>> >> >>,
      <<"str", <<>> >>, <<"str", Ok>> }

Composites ==
    { NilSliceU8, EmptyStruct, Record7Ok, IfaceA, IfaceB, IfaceC, IfaceD, NilIface,
      <<"slice", <<"slice", <<"u8">> >>, FALSE, <<SliceU8(1), SliceU8(MaxSliceLen + 1)>> >>,
      <<"slice", <<"slice", <<"u8">> >>, FALSE, <<SliceU8(1), NilSliceU8>> >>,
      <<"slice", <<"struct", <<>> >>, FALSE, <<EmptyStruct, EmptyStruct>> >>,
      <<"array", <<"u16">>, << <<"u16", 1>>, <<"u16", 515>> >> >>,
      <<"array", <<"u8">>, <<>> >>,
      <<"struct", << <<"u8", 9>>, SliceU8(MaxSliceLen + 1) >> >>,
      <<"struct", << <<"u8", 9>>, IfaceD >> >>,
      <<"struct", << <<"ptr", <<"u16">>, TRUE, None>>, SliceU8(MaxSliceLen + 1) >> >>,
      <<"struct", << <<"u8", 9>>, IfaceA, <<"u16", 258>> >> >>,
      <<"struct", << <<"str", Ok>>, <<"ptr", <<"u16">>, TRUE, None>> >> >>,
      <<"ptr", <<"u16">>, FALSE, <<"u16", 258>> >>,
      <<"ptr", <<"u16">>, TRUE, None>> }
    \cup { SliceU8(n) : n \in 0..(MaxSliceLen + 1) }

\* Values that hold a string of MaxStringLen bytes or more.
LongValues ==
    { <<"str", MaxStr>>, <<"str", LongStr>>,
      <<"struct", << <<"u8", 9>>, <<"str", LongStr>> >> >> }

\* The long values are encoded on a fresh registry only: their encoding does
\* not read the registry, and each state that holds one is large.
Values ==
    Primitives \cup Composites
    \cup (IF nextTypeID = <<0, 0>> THEN LongValues ELSE {})

\* Inputs that no Marshal call produced. level says which decoder they are
\* for; pos is the offset of the element count of a slice that exceeds
\* MaxSliceLen, or -1 when the input holds none.
Crafted ==
    { [level |-> "manager", bytes |-> b, shape |-> <<"u8">>, pos |-> -1] :
        b \in { <<>>, <<1>>, <<255, 255>>, <<255, 255, 7>>, <<0, 2, 7>>, <<1, 2, 7>>, <<0, 1, 7>> } }
    \cup
    { [level |-> "codec", bytes |-> b, shape |-> <<"slice", <<"u8">> >>, pos |-> 0] :
        b \in { BE32(U32(MaxSliceLen + 1)),
                BE32(U32(MaxSliceLen + 1)) \o Zeros(MaxSliceLen + 1),
                BE32(<<65535, 65535>>), BE32(<<32768, 0>>) \o <<1, 2>>,
                BE32(<<256, 0>>) \o <<7>> } }
    \cup
    { [level |-> "codec", bytes |-> <<9>> \o BE32(U32(MaxSliceLen + 1)) \o <<1>>,
       shape |-> <<"struct", << <<"u8">>, <<"slice", <<"u8">> >> >> >>, pos |-> 1],
      [level |-> "codec",
       bytes |-> BE32(U32(1)) \o BE32(U32(MaxSliceLen + 2)) \o <<1>>,
       shape |-> <<"slice", <<"slice", <<"u8">> >> >>, pos |-> 4],
      [level |-> "codec", bytes |-> BE32(<<0, 9>>) \o <<1>>, shape |-> <<"iface">>, pos |-> -1],
      [level |-> "manager", bytes |-> <<0, 1>> \o BE32(U32(MaxSliceLen + 1)) \o <<1>>,
       shape |-> <<"slice", <<"u8">> >>, pos |-> 2] }

\* What a destination of shape T holds before a decode: nothing, or a value
\* of an earlier decode.
DestInits(T) == {Zero(T)} \cup {v \in Primitives \cup Composites : ShapeOf(v) = T /\ v[1] \in {"u8", "slice", "struct"}}

CutLengths(n) ==
    IF n <= MaxCut THEN 0..(n - 1) ELSE (0..(MaxCut - 1)) \cup {n - 1}

(***************************************************************************)
(* The state machine of the manager and its codec.                         *)
(***************************************************************************)
NoCall == [op |-> "init", err |-> NoErr]

\* No call is in progress: the caller holds no bytes and no result. A new
\* top-level call starts from here; no call reads what the one before left.
Idle == call.op \in {"init", "Return", "RegisterCodec", "RegisterType", "SkipRegistrations"}
NothingSent == [kind |-> "none", level |-> "none", cut |-> FALSE, ok |-> FALSE, pos |-> 0,
                version |-> 0, value |-> EmptyStruct, shape |-> <<"struct", <<>> >>]

MaxThreads == 3   \* goroutines that call the manager at the same time

Threads == 1..MaxThreads

\* A goroutine that has not called the manager yet.
NotStarted == [pc |-> "idle", op |-> "none", version |-> 0, exists |-> FALSE,
               raced |-> {}, err |-> NoErr]

Init ==
    /\ threads = [t \in Threads |-> NotStarted]
    /\ p = NewPacker(0)
    /\ prev = NewPacker(0)
    /\ call = NoCall
    /\ steps = 0
    /\ codecs = <<>>
    /\ wire = <<>>
    /\ sent = NothingSent
    /\ nextTypeID = NewRegistry.next
    /\ typeIDToIdx = NewRegistry.typeIDToIdx
    /\ idxToType = NewRegistry.idxToType
    /\ hist = <<>>

DoRegisterCodec(version) ==
    LET r == RegisterCodec(codecs, version, "linear")
    IN  /\ Idle
        /\ codecs' = r.codecs
        /\ call' = [op |-> "RegisterCodec", version |-> version, err |-> r.err]
        /\ UNCHANGED <<p, prev, steps, wire, sent, nextTypeID, typeIDToIdx, idxToType, hist, threads>>

DoRegisterType(name) ==
    LET r == RegisterType(Registry, name)
    IN  /\ Idle
        /\ IntOfU32(nextTypeID) < MaxTags
        /\ nextTypeID' = r.reg.next
        /\ typeIDToIdx' = r.reg.typeIDToIdx
        /\ idxToType' = r.reg.idxToType
        /\ call' = [op |-> "RegisterType", name |-> name, err |-> r.err]
        /\ UNCHANGED <<p, prev, steps, codecs, wire, sent, hist, threads>>

DoSkipRegistrations(num) ==
    LET r == SkipRegistrations(Registry, num)
    IN  /\ Idle
        /\ IntOfU32(nextTypeID) < MaxTags
        /\ nextTypeID' = r.next
        /\ typeIDToIdx' = r.typeIDToIdx
        /\ idxToType' = r.idxToType
        /\ call' = [op |-> "SkipRegistrations", num |-> num, err |-> NoErr]
        /\ UNCHANGED <<p, prev, steps, codecs, wire, sent, hist, threads>>

DoMarshal(version, source) ==
    LET r == Marshal(version, source)
    IN  /\ Idle
        /\ call' = [op |-> "Marshal", err |-> r.err, bytesNil |-> r.bytes.isNil]
        /\ wire' = r.bytes.b
        /\ sent' = [kind |-> "marshal", level |-> "manager", cut |-> FALSE,
                    ok |-> r.err = NoErr, pos |-> 0, version |-> version, value |-> source, shape |-> ShapeOf(source)]
        /\ UNCHANGED <<p, prev, steps, codecs, nextTypeID, typeIDToIdx, idxToType, hist, threads>>

DoManagerSize(version, value) ==
    LET r == ManagerSize(version, value)
    IN  /\ Idle
        /\ call' = [op |-> "ManagerSize", err |-> r.err, n |-> r.n]
        /\ wire' = <<>>
        /\ sent' = [kind |-> "size", level |-> "manager", cut |-> FALSE,
                    ok |-> r.err = NoErr, pos |-> 0, version |-> version, value |-> value, shape |-> ShapeOf(value)]
        /\ UNCHANGED <<p, prev, steps, codecs, nextTypeID, typeIDToIdx, idxToType, hist, threads>>

DoMarshalInto(value) ==
    LET r == MarshalInto(value, NewPacker(DefaultMaxSize))
    IN  /\ Idle
        /\ call' = [op |-> "MarshalInto", err |-> r.err, offset |-> r.p.Offset,
                    written |-> Len(r.p.Bytes)]
        /\ wire' = r.p.Bytes
        /\ sent' = [kind |-> "marshal", level |-> "codec", cut |-> FALSE,
                    ok |-> r.err = NoErr, pos |-> 0, version |-> 0, value |-> value, shape |-> ShapeOf(value)]
        /\ UNCHANGED <<p, prev, steps, codecs, nextTypeID, typeIDToIdx, idxToType, hist, threads>>

DoCodecSize(value) ==
    LET r == CodecSize(value)
    IN  /\ Idle
        /\ call' = [op |-> "Size", err |-> r.err, n |-> r.n]
        /\ wire' = <<>>
        /\ sent' = [kind |-> "size", level |-> "codec", cut |-> FALSE,
                    ok |-> r.err = NoErr, pos |-> 0, version |-> 0, value |-> value, shape |-> ShapeOf(value)]
        /\ UNCHANGED <<p, prev, steps, codecs, nextTypeID, typeIDToIdx, idxToType, hist, threads>>

\* The bytes in flight are cut to a proper prefix of a complete encoding.
Truncate(k) ==
    /\ sent.kind = "marshal"
    /\ ~sent.cut
    /\ call.op \in {"Marshal", "MarshalInto"}
    /\ call.err = NoErr
    /\ wire' = SubSeq(wire, 1, k)
    /\ sent' = [sent EXCEPT !.cut = TRUE]
    /\ call' = [op |-> "Truncate", err |-> NoErr]
    /\ UNCHANGED <<p, prev, steps, codecs, nextTypeID, typeIDToIdx, idxToType, hist, threads>>

Inject(c) ==
    /\ Idle
    /\ wire' = c.bytes
    /\ sent' = [kind |-> "crafted", level |-> c.level, cut |-> FALSE, ok |-> FALSE,
                pos |-> c.pos, version |-> 0,
                value |-> Zero(c.shape), shape |-> c.shape]
    /\ call' = [op |-> "Inject", err |-> NoErr]
    /\ UNCHANGED <<p, prev, steps, codecs, nextTypeID, typeIDToIdx, idxToType, hist, threads>>

DoUnmarshal(dest) ==
    LET r == Unmarshal(wire, sent.shape, dest)
    IN  /\ sent.kind \in {"marshal", "crafted"}
        /\ sent.level = "manager"
        /\ call' = [op |-> "Unmarshal", err |-> r.err, version |-> r.version,
                    before |-> dest, dest |-> r.dest, invoked |-> r.invoked,
                    codecsBefore |-> codecs]
        /\ UNCHANGED <<p, prev, steps, codecs, wire, sent, nextTypeID, typeIDToIdx, idxToType, hist, threads>>

DoUnmarshalFrom(dest) ==
    LET r == UnmarshalFrom(PackerFromBytes(wire), sent.shape, dest)
    IN  /\ sent.kind \in {"marshal", "crafted"}
        /\ sent.level = "codec"
        /\ call' = [op |-> "UnmarshalFrom", err |-> r.err, before |-> dest,
                    dest |-> r.val, offset |-> r.p.Offset]
        /\ UNCHANGED <<p, prev, steps, codecs, wire, sent, nextTypeID, typeIDToIdx, idxToType, hist, threads>>

\* The caller drops the bytes and the result of the call it made.
Return ==
    /\ ~Idle
    /\ call' = [op |-> "Return", err |-> NoErr]
    /\ wire' = <<>>
    /\ sent' = NothingSent
    /\ UNCHANGED <<p, prev, steps, codecs, nextTypeID, typeIDToIdx, idxToType, hist, threads>>

Next ==
    \/ \E version \in Versions : DoRegisterCodec(version)
    \/ \E name \in {"A", "B"} : DoRegisterType(name)
    \/ DoSkipRegistrations(1)
    \/ \E version \in Versions, source \in Values : DoMarshal(version, source)
    \/ \E version \in Versions, value \in Values : DoManagerSize(version, value)
    \/ \E value \in Values : DoMarshalInto(value)
    \/ \E value \in Values : DoCodecSize(value)
    \/ \E k \in CutLengths(Len(wire)) : Truncate(k)
    \/ \E c \in Crafted : Inject(c)
    \/ \E dest \in DestInits(sent.shape) : DoUnmarshal(dest)
    \/ \E dest \in DestInits(sent.shape) : DoUnmarshalFrom(dest)
    \/ Return

Spec == Init /\ [][Next]_vars

(***************************************************************************)
(* Properties of the manager and its codec, checked under Spec.            *)
(***************************************************************************)
\* A value of the supported shapes that the codec accepts: strings of at most
\* MaxStringLen bytes, slices of at most MaxSliceLen elements, pointers that
\* are not nil, interfaces that hold a registered shape.
RECURSIVE Supported(_)
Supported(v) ==
    CASE v[1] = "str"    -> Len(v[2]) <= MaxStringLen
      [] v[1] = "slice"  -> /\ Len(v[4]) <= MaxSliceLen
                            /\ \A i \in 1..Len(v[4]) : Supported(v[4][i])
      [] v[1] = "array"  -> \A i \in 1..Len(v[3]) : Supported(v[3][i])
      [] v[1] = "struct" -> \A i \in 1..Len(v[2]) : Supported(v[2][i])
      [] v[1] = "ptr"    -> ~v[3] /\ Supported(v[4])
      [] v[1] = "iface"  -> v[2] # None /\ v[2] \in DOMAIN typeIDToIdx /\ Supported(v[3])
      [] OTHER           -> TRUE

\* v with every absent (nil) slice replaced by a present slice of length 0.
RECURSIVE AbsentAsEmpty(_)
AbsentAsEmpty(v) ==
    CASE v[1] = "slice"  ->
            <<"slice", v[2], FALSE, [i \in 1..Len(v[4]) |-> AbsentAsEmpty(v[4][i])]>>
      [] v[1] = "array"  ->
            <<"array", v[2], [i \in 1..Len(v[3]) |-> AbsentAsEmpty(v[3][i])]>>
      [] v[1] = "struct" -> <<"struct", [i \in 1..Len(v[2]) |-> AbsentAsEmpty(v[2][i])]>>
      [] v[1] = "ptr"    -> IF v[3] THEN v ELSE <<"ptr", v[2], FALSE, AbsentAsEmpty(v[4])>>
      [] v[1] = "iface"  -> IF v[2] = None THEN v ELSE <<"iface", v[2], AbsentAsEmpty(v[3])>>
      [] OTHER           -> v

\* The state after Manager.Unmarshal of the complete output of a successful
\* Manager.Marshal into a fresh destination.
RoundTripDone ==
    /\ call.op = "Unmarshal"
    /\ sent.kind = "marshal"
    /\ sent.ok
    /\ ~sent.cut
    /\ call.before = Zero(sent.shape)

MarshalAccepts ==
    (call.op = "Marshal" /\ sent.version \in DOMAIN codecs /\ Supported(sent.value))
        => (call.err = NoErr /\ ~call.bytesNil)

BigEndianDigits(n, width) == [i \in 1..width |-> (n \div (TwoTo8 ^ (width - i))) % TwoTo8]

RECURSIVE LimbDigits(_)
LimbDigits(limbs) ==
    IF limbs = <<>> THEN <<>> ELSE BigEndianDigits(Head(limbs), 2) \o LimbDigits(Tail(limbs))

\* Integers, strings, and records of them.
RECURSIVE Flat(_)
Flat(v) ==
    CASE v[1] \in {"u8", "u16", "u32", "u64", "i8", "i16", "i32", "i64"} -> TRUE
      [] v[1] = "str"    -> Len(v[2]) <= MaxStringLen
      [] v[1] = "struct" -> \A i \in 1..Len(v[2]) : Flat(v[2][i])
      [] OTHER           -> FALSE

\* The wire layout of a flat value, written down from the format: an integer
\* big-endian at its width, a string as its length in 2 bytes and its bytes, a
\* record as its fields in declaration order.
RECURSIVE Layout(_), LayoutAll(_, _)
Layout(v) ==
    CASE v[1] = "u8"  -> <<v[2]>>
      [] v[1] = "i8"  -> <<v[2] % TwoTo8>>
      [] v[1] = "u16" -> BigEndianDigits(v[2], 2)
      [] v[1] = "i16" -> BigEndianDigits(v[2] % TwoTo16, 2)
      [] v[1] = "u32" -> LimbDigits(v[2])
      [] v[1] = "i32" -> LimbDigits(<<(v[2] \div TwoTo16) % TwoTo16, v[2] % TwoTo16>>)
      [] v[1] = "u64" -> LimbDigits(v[2])
      [] v[1] = "i64" ->
            LimbDigits(<<(v[2][1] \div TwoTo16) % TwoTo16, v[2][1] % TwoTo16>> \o v[2][2])
      [] v[1] = "str" -> BigEndianDigits(Len(v[2]), 2) \o v[2]
      [] v[1] = "struct" -> LayoutAll(v[2], 1)

LayoutAll(vs, i) == IF i > Len(vs) THEN <<>> ELSE Layout(vs[i]) \o LayoutAll(vs, i + 1)

Record7OkWire == <<0, 1, 0, 0, 0, 7, 0, 2, 111, 107>>

RECURSIVE HasLongSlice(_)
HasLongSlice(v) ==
    CASE v[1] = "slice"  -> \/ Len(v[4]) > MaxSliceLen
                            \/ \E i \in 1..Len(v[4]) : HasLongSlice(v[4][i])
      [] v[1] = "array"  -> \E i \in 1..Len(v[3]) : HasLongSlice(v[3][i])
      [] v[1] = "struct" -> \E i \in 1..Len(v[2]) : HasLongSlice(v[2][i])
      [] v[1] = "ptr"    -> ~v[3] /\ HasLongSlice(v[4])
      [] v[1] = "iface"  -> v[2] # None /\ HasLongSlice(v[3])
      [] OTHER           -> FALSE

\* Nothing but the length of its slices makes the codec reject v.
RECURSIVE SupportedButForLength(_)
SupportedButForLength(v) ==
    CASE v[1] = "str"    -> Len(v[2]) <= MaxStringLen
      [] v[1] = "slice"  -> \A i \in 1..Len(v[4]) : SupportedButForLength(v[4][i])
      [] v[1] = "array"  -> \A i \in 1..Len(v[3]) : SupportedButForLength(v[3][i])
      [] v[1] = "struct" -> \A i \in 1..Len(v[2]) : SupportedButForLength(v[2][i])
      [] v[1] = "ptr"    -> ~v[3] /\ SupportedButForLength(v[4])
      [] v[1] = "iface"  -> /\ v[2] # None
                            /\ v[2] \in DOMAIN typeIDToIdx
                            /\ SupportedButForLength(v[3])
      [] OTHER           -> TRUE

\* The crafted input holds, at offset sent.pos, an element count above
\* MaxSliceLen, where the decoder expects the count of a slice.
CountExceedsMax ==
    /\ sent.kind = "crafted"
    /\ sent.pos >= 0
    /\ Len(wire) >= sent.pos + 4
    /\ \/ wire[sent.pos + 1] > 0
       \/ wire[sent.pos + 2] > 0
       \/ wire[sent.pos + 3] * TwoTo8 + wire[sent.pos + 4] > MaxSliceLen

\* The decode put no slice longer than MaxSliceLen into the destination: a
\* destination that is the slice itself is as it was, and any other holds an
\* over-long slice only if it held one before the call.
NothingAllocated ==
    /\ sent.shape[1] = "slice" /\ sent.pos \in {0, 2} => call.dest = call.before
    /\ HasLongSlice(call.dest) => HasLongSlice(call.before)

C8_UnknownVersion ==
    /\ (call.op = "Unmarshal" /\ Len(wire) < 2) =>
          /\ call.version = 0
          /\ call.err = ErrCantUnpackVersion
          /\ ~call.invoked
          /\ call.dest = call.before
          /\ codecs = call.codecsBefore
    /\ (call.op = "Unmarshal" /\ Len(wire) >= 2
            /\ wire[1] * TwoTo8 + wire[2] \notin DOMAIN codecs) =>
          /\ call.version = wire[1] * TwoTo8 + wire[2]
          /\ call.err = ErrUnknownVersion
          /\ ~call.invoked
          /\ call.dest = call.before
          /\ codecs = call.codecsBefore

C8_Witness ==
    /\ call.op = "Unmarshal"
    /\ wire = <<1, 2, 7>>
    /\ DOMAIN codecs = {1}
    /\ call.version = 258
    /\ call.err = ErrUnknownVersion
    /\ call.before = <<"u8", 255>>
    /\ call.dest = call.before

(***************************************************************************)
(* The Packer on its own: a sequence of calls on one Packer.               *)
(***************************************************************************)
MaxSteps == 3     \* calls made on the Packer

SomeID == [i \in 1..IDLen |-> i]

PackerInputs == { <<>>, <<0, 2, 1, 2>>, <<0, 0, 0, 1, 9>>, SomeID \o <<1>> }

\* A call on the Packer that leaves it as q and returns ret, where zero is the
\* zero value of what the call returns (0 for a call that returns nothing).
Step(name, q, ret, zero) ==
    /\ steps < MaxSteps
    /\ prev' = p
    /\ p' = q
    /\ call' = [op |-> name, err |-> q.Err, ret |-> ret, zero |-> zero]
    /\ steps' = steps + 1
    /\ UNCHANGED <<codecs, wire, sent, nextTypeID, typeIDToIdx, idxToType, hist, threads>>

FromBytes(b) ==
    /\ steps = 0
    /\ call.op = "init"
    /\ p' = PackerFromBytes(b)
    /\ prev' = PackerFromBytes(b)
    /\ call' = [op |-> "PackerFromBytes", err |-> NoErr, ret |-> 0, zero |-> 0]
    /\ UNCHANGED <<steps, codecs, wire, sent, nextTypeID, typeIDToIdx, idxToType, hist, threads>>

CallPackByte(val) == Step("PackByte", PackByte(p, val), 0, 0)
CallUnpackByte == LET r == UnpackByte(p) IN Step("UnpackByte", r.p, r.val, 0)
CallPackShort(val) == Step("PackShort", PackShort(p, val), 0, 0)
CallUnpackShort == LET r == UnpackShort(p) IN Step("UnpackShort", r.p, r.val, 0)
CallPackInt(val) == Step("PackInt", PackInt(p, val), 0, 0)
CallUnpackInt == LET r == UnpackInt(p) IN Step("UnpackInt", r.p, r.val, <<0, 0>>)
CallPackLong(val) == Step("PackLong", PackLong(p, val), 0, 0)
CallUnpackLong == LET r == UnpackLong(p) IN Step("UnpackLong", r.p, r.val, <<0, 0, 0, 0>>)
CallPackBool(val) == Step("PackBool", PackBool(p, val), 0, 0)
CallUnpackBool == LET r == UnpackBool(p) IN Step("UnpackBool", r.p, r.val, FALSE)
CallPackBytes(val) == Step("PackBytes", PackBytes(p, val), 0, 0)
CallUnpackBytes == LET r == UnpackBytes(p) IN Step("UnpackBytes", r.p, r.val, NilBytes)
CallPackFixedBytes(val) == Step("PackFixedBytes", PackFixedBytes(p, val), 0, 0)
CallUnpackFixedBytes(n) ==
    LET r == UnpackFixedBytes(p, n) IN Step("UnpackFixedBytes", r.p, r.val, NilBytes)
CallPackStr(val) == Step("PackStr", PackStr(p, val), 0, 0)
CallUnpackStr == LET r == UnpackStr(p) IN Step("UnpackStr", r.p, r.val, <<>>)
CallPackID(id) == Step("PackID", PackID(p, id), 0, 0)
CallUnpackID == LET r == UnpackID(p) IN Step("UnpackID", r.p, r.val, Zeros(IDLen))

NextPacker ==
    \/ \E b \in PackerInputs : FromBytes(b)
    \/ CallPackByte(7)
    \/ CallUnpackByte
    \/ CallPackShort(258)
    \/ CallUnpackShort
    \/ CallPackInt(<<1, 2>>)
    \/ CallUnpackInt
    \/ CallPackLong(<<1, 2, 3, 4>>)
    \/ CallUnpackLong
    \/ CallPackBool(TRUE)
    \/ CallUnpackBool
    \/ \E val \in {<<>>, <<1, 2>>} : CallPackBytes(val)
    \/ CallUnpackBytes
    \/ CallPackFixedBytes(<<1, 2>>)
    \/ \E n \in {-1, 0, 2} : CallUnpackFixedBytes(n)
    \/ \E val \in {Ok, LongStr} : CallPackStr(val)
    \/ CallUnpackStr
    \/ CallPackID(SomeID)
    \/ CallUnpackID

SpecPacker == Init /\ [][NextPacker]_vars

\* C6: once a call has set Err, every later Pack or Unpack call leaves Offset
\* and Bytes unchanged, returns the zero value, and leaves Err the first error
\* that was set.
C6_StickyError ==
    (call.op \notin {"init", "PackerFromBytes"} /\ prev.Err # NoErr) =>
        /\ p.Err = prev.Err
        /\ p.Offset = prev.Offset
        /\ p.Bytes = prev.Bytes
        /\ call.ret = call.zero

(***************************************************************************)
(* The registry on its own: a sequence of registration calls.              *)
(***************************************************************************)
MaxCalls == 6     \* calls made on the registry

SkipArgs == {2, -1}

RegistryCall(entry) ==
    /\ Len(hist) < MaxCalls
    /\ nextTypeID' = entry.reg.next
    /\ typeIDToIdx' = entry.reg.typeIDToIdx
    /\ idxToType' = entry.reg.idxToType
    /\ hist' = Append(hist, entry)
    /\ call' = [op |-> entry.op, err |-> entry.err]
    /\ UNCHANGED <<p, prev, steps, codecs, wire, sent, threads>>

CallRegisterType(name) ==
    LET r == RegisterType(Registry, name)
    IN  RegistryCall([op |-> "RegisterType", name |-> name, num |-> 0,
                      err |-> r.err, reg |-> r.reg])

CallSkipRegistrations(num) ==
    RegistryCall([op |-> "SkipRegistrations", name |-> "", num |-> num,
                  err |-> NoErr, reg |-> SkipRegistrations(Registry, num)])

NextRegistry ==
    \/ \E name \in TypeNames : CallRegisterType(name)
    \/ \E num \in SkipArgs : CallSkipRegistrations(num)

SpecRegistry == Init /\ [][NextRegistry]_vars

\* The calls of the scenario: register A, B, C, register A again, skip 2,
\* register D.
ScenarioCalls ==
    << [op |-> "RegisterType", name |-> "A", num |-> 0],
       [op |-> "RegisterType", name |-> "B", num |-> 0],
       [op |-> "RegisterType", name |-> "C", num |-> 0],
       [op |-> "RegisterType", name |-> "A", num |-> 0],
       [op |-> "SkipRegistrations", name |-> "", num |-> 2],
       [op |-> "RegisterType", name |-> "D", num |-> 0] >>

\* The first k calls on the registry were the first k calls of the scenario.
Scenario(k) ==
    /\ Len(hist) >= k
    /\ \A i \in 1..k : /\ hist[i].op = ScenarioCalls[i].op
                       /\ hist[i].name = ScenarioCalls[i].name
                       /\ hist[i].num = ScenarioCalls[i].num

ScenarioUpToSkip ==
    /\ Scenario(3) =>
          /\ \A i \in 1..3 : hist[i].err = NoErr
          /\ hist[3].reg.typeIDToIdx["A"] = <<0, 0>>
          /\ hist[3].reg.typeIDToIdx["B"] = <<0, 1>>
          /\ hist[3].reg.typeIDToIdx["C"] = <<0, 2>>
    /\ Scenario(4) =>
          /\ hist[4].err = ErrCantRegisterType
          /\ hist[4].reg = hist[3].reg

Lookups == {"Marshal", "Unmarshal", "Size"}

\* Positions at which a goroutine is inside an access to m.codecs.
Reading == {"check", "lookup"}
Accessing == Reading \cup {"write"}

\* The versions that other goroutines are writing to the table right now.
OthersWriting(t) == {threads[u].version : u \in {w \in Threads \ {t} : threads[w].pc = "write"}}

\* What a read of m.codecs[version] that ends now reports: the table's entry;
\* if a write overlapped the read, possibly no entry; if a write of this very
\* version overlapped it, possibly that entry.
ReadResults(t) ==
    LET overlapped == threads[t].raced \cup OthersWriting(t)
    IN  {threads[t].version \in DOMAIN codecs}
        \cup (IF overlapped # {} THEN {FALSE} ELSE {})
        \cup (IF threads[t].version \in overlapped THEN {TRUE} ELSE {})

ThreadStep(t, new) ==
    /\ threads' = [threads EXCEPT ![t] = new]
    /\ UNCHANGED <<p, prev, call, steps, wire, sent, nextTypeID, typeIDToIdx, idxToType, hist>>

\* RegisterCodec is called and begins `_, exists := m.codecs[version]`.
BeginRegisterCodec(t, version) ==
    /\ threads[t].pc = "idle"
    /\ ThreadStep(t, [NotStarted EXCEPT !.pc = "check", !.op = "RegisterCodec",
                                        !.version = version, !.raced = OthersWriting(t)])
    /\ UNCHANGED codecs

\* The read ends: `return ErrDuplicateType` if the entry exists.
EndCheck(t) ==
    /\ threads[t].pc = "check"
    /\ \E exists \in ReadResults(t) :
          ThreadStep(t, [threads[t] EXCEPT
                            !.exists = exists,
                            !.pc = IF exists THEN "done" ELSE "store",
                            !.err = IF exists THEN ErrDuplicateType ELSE NoErr])
    /\ UNCHANGED codecs

\* `m.codecs[version] = codec` begins: every read in progress now overlaps a
\* write.
BeginWrite(t) ==
    /\ threads[t].pc = "store"
    /\ threads' = [u \in Threads |->
                      IF u = t THEN [threads[u] EXCEPT !.pc = "write"]
                      ELSE IF threads[u].pc \in Reading
                      THEN [threads[u] EXCEPT !.raced = @ \cup {threads[t].version}]
                      ELSE threads[u]]
    /\ UNCHANGED <<p, prev, call, steps, codecs, wire, sent, nextTypeID, typeIDToIdx,
                   idxToType, hist>>

\* The write ends and RegisterCodec returns nil.
EndWrite(t) ==
    /\ threads[t].pc = "write"
    /\ codecs' = (threads[t].version :> "linear") @@ codecs
    /\ ThreadStep(t, [threads[t] EXCEPT !.pc = "done", !.err = NoErr])

\* Marshal, Unmarshal or Size is called and begins
\* `codec, exists := m.codecs[version]`.
BeginLookup(t, op, version) ==
    /\ threads[t].pc = "idle"
    /\ ThreadStep(t, [NotStarted EXCEPT !.pc = "lookup", !.op = op,
                                        !.version = version, !.raced = OthersWriting(t)])
    /\ UNCHANGED codecs

\* The read ends: ErrUnknownVersion if no entry was seen, else the call goes on
\* with the codec, without the table.
EndLookup(t) ==
    /\ threads[t].pc = "lookup"
    /\ \E exists \in ReadResults(t) :
          ThreadStep(t, [threads[t] EXCEPT
                            !.exists = exists,
                            !.pc = "done",
                            !.err = IF exists THEN NoErr ELSE ErrUnknownVersion])
    /\ UNCHANGED codecs

\* The runtime detects a map read or write that overlaps a map write and
\* stops the program: no goroutine takes another step.
Fatal(t) ==
    /\ threads[t].pc \in Accessing
    /\ OthersWriting(t) # {}
    /\ threads' = [u \in Threads |-> [threads[u] EXCEPT !.pc = "fatal"]]
    /\ UNCHANGED <<p, prev, call, steps, codecs, wire, sent, nextTypeID, typeIDToIdx,
                   idxToType, hist>>

NextConcurrent ==
    \E t \in Threads :
        \/ \E version \in Versions : BeginRegisterCodec(t, version)
        \/ EndCheck(t)
        \/ BeginWrite(t)
        \/ EndWrite(t)
        \/ \E op \in Lookups, version \in Versions : BeginLookup(t, op, version)
        \/ EndLookup(t)
        \/ Fatal(t)

SpecConcurrent == Init /\ [][NextConcurrent]_vars

\* The RegisterCodec calls for version that have returned, and those of them
\* that returned nil.
Registered(version) ==
    {t \in Threads : /\ threads[t].op = "RegisterCodec"
                     /\ threads[t].version = version
                     /\ threads[t].pc = "done"}

Succeeded(version) == {t \in Registered(version) : threads[t].err = NoErr}

\* No RegisterCodec call for version is in progress.
AllReturned(version) ==
    \A t \in Threads :
        (threads[t].op = "RegisterCodec" /\ threads[t].version = version)
            => threads[t].pc = "done"

\* C11: no write of RegisterCodec to the version table overlaps a lookup of
\* the table by Marshal, Unmarshal or Size, or a write by another
\* RegisterCodec; and of the RegisterCodec calls made for one version, exactly
\* one returns nil and every other returns ErrDuplicateType.
C11_SingleWriter ==
    /\ \A t, u \in Threads :
          (t # u /\ threads[t].pc = "write") => threads[u].pc \notin {"lookup", "write"}
    /\ \A version \in Versions :
          /\ Cardinality(Succeeded(version)) <= 1
          /\ (Registered(version) # {} /\ AllReturned(version))
                => Cardinality(Succeeded(version)) = 1
          /\ \A t \in Registered(version) \ Succeeded(version) :
                threads[t].err = ErrDuplicateType

====
